---- MODULE Spec2Model ----
(***************************************************************************)
(* A model of cogs/JokeAnalyzer.py: the JokeAnalyzer cog of a Discord bot. *)
(* The cog has two entry points, the analyzejoke command and the           *)
(* on_reaction_add listener; both hand a text or an image URL to one of    *)
(* two remote analysis backends and present the result as an embed.        *)
(*                                                                         *)
(* A Python string is modelled as the sequence of its code points, each    *)
(* the integer ord gives, so that Len is Python's len: "http" is           *)
(* <<104, 116, 116, 112>>.  Python's None is the value None below, which   *)
(* is no string.                                                           *)
(*                                                                         *)
(* The event loop is modelled by the variable running: a task runs from    *)
(* one await that suspends it to the next, and nothing else runs           *)
(* meanwhile.  add_reaction, remove_reaction and context.send are taken    *)
(* to succeed; message.reply can be refused, as the except clause of       *)
(* lines 226 to 228 provides for.                                          *)
(***************************************************************************)
EXTENDS Integers, Sequences, FiniteSets, TLC

\* ------------------------------------------------------------------------
\* Bounds of the model.

\* Concurrent invocations in SpecConc.
NumTasks == 2
\* Longest run of filler between the head and the tail of a short input.
MaxPad == 1
\* Inputs reach MAX_CONTENT_LEN + LenSlack code points.
LenSlack == 1
\* Backend results reach MAX_DESCRIPTION_LEN + ResultSlack code points.
ResultSlack == 1

\* ------------------------------------------------------------------------
\* Program constants.

\* len(content) > 500 (lines 131 and 184)
MAX_CONTENT_LEN == 500
\* analysis[:2000] (lines 141 and 199)
MAX_DESCRIPTION_LEN == 2000
\* max_retries = 3 (line 99)
max_retries == 3
\* asyncio.sleep(2) (line 111)
RETRY_SLEEP == 2
\* response.status != 200 (line 68)
HTTP_OK == 200

\* ------------------------------------------------------------------------
\* String literals of the source, as sequences of code points.

\* Python's None: a one-element sequence whose element is no code point.
None == <<-1>>

\* self.EMOJI_TRIGGER (line 36): "\U0001f921"
EMOJI_TRIGGER ==
    <<129313>>

\* the processing reaction (lines 166, 186, 193, 230): "\U0001f50d"
PROCESSING_EMOJI ==
    <<128269>>

\* line 47: "\u274c DeepSeek API\u91d1\u9470\u672a\u914d\u7f6e\uff0c\u7121\u6cd5\u5206\u6790\u7b11\u8a71"
MSG_NO_DEEPSEEK_KEY ==
    <<10060, 32, 68, 101, 101, 112, 83, 101, 101, 107, 32, 65, 80, 73, 37329,
      38000, 26410, 37197, 32622, 65292, 28961, 27861, 20998, 26512, 31505,
      35441>>

\* line 70, the text before {response.status}: "\u274c API\u932f\u8aa4 (\u72c0\u614b\u78bc: "
MSG_API_ERROR_HEAD ==
    <<10060, 32, 65, 80, 73, 37679, 35492, 32, 40, 29376, 24907, 30908, 58,
      32>>

\* line 70, the text after {response.status}: ")"
MSG_API_ERROR_TAIL ==
    <<41>>

\* line 76, the text before {str(e)}: "\u274c \u5206\u6790\u5931\u6557: "
MSG_TEXT_FAILED_HEAD ==
    <<10060, 32, 20998, 26512, 22833, 25943, 58, 32>>

\* line 81: "\u274c MiniMax API\u91d1\u9470\u672a\u914d\u7f6e\uff0c\u7121\u6cd5\u5206\u6790\u5716\u7247"
MSG_NO_MINIMAX_KEY ==
    <<10060, 32, 77, 105, 110, 105, 77, 97, 120, 32, 65, 80, 73, 37329,
      38000, 26410, 37197, 32622, 65292, 28961, 27861, 20998, 26512, 22294,
      29255>>

\* line 116, the text before {str(e)}: "\u274c \u5716\u7247\u5206\u6790\u5931\u6557: "
MSG_IMAGE_FAILED_HEAD ==
    <<10060, 32, 22294, 29255, 20998, 26512, 22833, 25943, 58, 32>>

\* line 127: "\U0001f50d \u6b63\u5728\u5206\u6790\u5716\u7247\u7b11\u9ede..."
MSG_ANALYZING_IMAGE ==
    <<128269, 32, 27491, 22312, 20998, 26512, 22294, 29255, 31505, 40670, 46,
      46, 46>>

\* line 132: "\u274c \u5167\u5bb9\u592a\u9577\u4e86\uff01\u8acb\u9650\u5236\u5728500\u5b57\u4ee5\u5167"
MSG_CONTENT_TOO_LONG ==
    <<10060, 32, 20839, 23481, 22826, 38263, 20102, 65281, 35531, 38480,
      21046, 22312, 53, 48, 48, 23383, 20197, 20839>>

\* line 134: "\U0001f50d \u6b63\u5728\u5206\u6790\u7b11\u8a71..."
MSG_ANALYZING_TEXT ==
    <<128269, 32, 27491, 22312, 20998, 26512, 31505, 35441, 46, 46, 46>>

\* line 129: "\U0001f916 \u5716\u7247\u7b11\u8a71\u5206\u6790\u5831\u544a"
TITLE_COMMAND_IMAGE ==
    <<129302, 32, 22294, 29255, 31505, 35441, 20998, 26512, 22577, 21578>>

\* line 136: "\U0001f916 \u7b11\u8a71\u5206\u6790\u5831\u544a"
TITLE_COMMAND_TEXT ==
    <<129302, 32, 31505, 35441, 20998, 26512, 22577, 21578>>

\* line 185: "\u274c \u6d88\u606f\u592a\u9577\u7121\u6cd5\u5206\u6790\uff01\u8acb\u9650\u5236\u5728500\u5b57\u4ee5\u5167"
MSG_MESSAGE_TOO_LONG ==
    <<10060, 32, 28040, 24687, 22826, 38263, 28961, 27861, 20998, 26512,
      65281, 35531, 38480, 21046, 22312, 53, 48, 48, 23383, 20197, 20839>>

\* line 179: "\U0001f916 \u81ea\u52d5\u5716\u7247\u7b11\u9ede\u5206\u6790"
TITLE_AUTO_IMAGE ==
    <<129302, 32, 33258, 21205, 22294, 29255, 31505, 40670, 20998, 26512>>

\* line 191: "\U0001f916 \u81ea\u52d5\u7b11\u9ede\u5206\u6790"
TITLE_AUTO_TEXT ==
    <<129302, 32, 33258, 21205, 31505, 40670, 20998, 26512>>

\* line 228, the text before {str(e)}: "\u274c \u767c\u9001\u5206\u6790\u7d50\u679c\u5931\u6557: "
MSG_REPLY_FAILED_HEAD ==
    <<10060, 32, 30332, 36865, 20998, 26512, 32080, 26524, 22833, 25943, 58,
      32>>

\* str(KeyError('choices')), raised by data['choices'] at line 73: "'choices'"
STR_KEYERROR_CHOICES ==
    <<39, 99, 104, 111, 105, 99, 101, 115, 39>>

\* str(AttributeError), raised by None.strip() at line 73: "'NoneType' object has no attribute 'strip'"
STR_NONE_HAS_NO_STRIP ==
    <<39, 78, 111, 110, 101, 84, 121, 112, 101, 39, 32, 111, 98, 106, 101,
      99, 116, 32, 104, 97, 115, 32, 110, 111, 32, 97, 116, 116, 114, 105,
      98, 117, 116, 101, 32, 39, 115, 116, 114, 105, 112, 39>>

\* str(e) of a transport failure: "Request timed out."
STR_TIMEOUT ==
    <<82, 101, 113, 117, 101, 115, 116, 32, 116, 105, 109, 101, 100, 32, 111,
      117, 116, 46>>

\* str(e) of a refused message.reply: "403 Forbidden"
STR_FORBIDDEN ==
    <<52, 48, 51, 32, 70, 111, 114, 98, 105, 100, 100, 101, 110>>

\* the prefix tested at line 176: "image"
STR_IMAGE ==
    <<105, 109, 97, 103, 101>>

\* the prefix tested at line 126: "http"
STR_HTTP ==
    <<104, 116, 116, 112>>

\* [".jpg", ".jpeg", ".png", ".gif"] (line 126)
IMAGE_EXTENSIONS ==
    { <<46, 106, 112, 103>>, <<46, 106, 112, 101, 103>>,
      <<46, 112, 110, 103>>, <<46, 103, 105, 102>> }

\* ------------------------------------------------------------------------
\* The Unicode data of str.lower and str.strip (CPython 3.11, Unicode 14.0).

\* The code points str.strip() removes: those str.isspace() is true of.
WHITESPACE ==
    { 9, 10, 11, 12, 13, 28, 29, 30, 31, 32, 133, 160, 5760, 8192, 8193,
      8194, 8195, 8196, 8197, 8198, 8199, 8200, 8201, 8202, 8232, 8233,
      8239, 8287, 12288 }

\* The simple lower-case mappings: <<first, last, step, delta>> maps each
\* code point first, first + step, ..., last to itself plus delta.
LOWER_ROWS ==
    << <<65, 90, 1, 32>>, <<192, 214, 1, 32>>, <<216, 222, 1, 32>>,
       <<256, 302, 2, 1>>, <<306, 310, 2, 1>>, <<313, 327, 2, 1>>,
       <<330, 374, 2, 1>>, <<376, 376, 1, -121>>, <<377, 381, 2, 1>>,
       <<385, 385, 1, 210>>, <<386, 388, 2, 1>>, <<390, 390, 1, 206>>,
       <<391, 391, 1, 1>>, <<393, 394, 1, 205>>, <<395, 395, 1, 1>>,
       <<398, 398, 1, 79>>, <<399, 399, 1, 202>>, <<400, 400, 1, 203>>,
       <<401, 401, 1, 1>>, <<403, 403, 1, 205>>, <<404, 404, 1, 207>>,
       <<406, 406, 1, 211>>, <<407, 407, 1, 209>>, <<408, 408, 1, 1>>,
       <<412, 412, 1, 211>>, <<413, 413, 1, 213>>, <<415, 415, 1, 214>>,
       <<416, 420, 2, 1>>, <<422, 422, 1, 218>>, <<423, 423, 1, 1>>,
       <<425, 425, 1, 218>>, <<428, 428, 1, 1>>, <<430, 430, 1, 218>>,
       <<431, 431, 1, 1>>, <<433, 434, 1, 217>>, <<435, 437, 2, 1>>,
       <<439, 439, 1, 219>>, <<440, 440, 1, 1>>, <<444, 444, 1, 1>>,
       <<452, 452, 1, 2>>, <<453, 453, 1, 1>>, <<455, 455, 1, 2>>,
       <<456, 456, 1, 1>>, <<458, 458, 1, 2>>, <<459, 475, 2, 1>>,
       <<478, 494, 2, 1>>, <<497, 497, 1, 2>>, <<498, 500, 2, 1>>,
       <<502, 502, 1, -97>>, <<503, 503, 1, -56>>, <<504, 542, 2, 1>>,
       <<544, 544, 1, -130>>, <<546, 562, 2, 1>>, <<570, 570, 1, 10795>>,
       <<571, 571, 1, 1>>, <<573, 573, 1, -163>>, <<574, 574, 1, 10792>>,
       <<577, 577, 1, 1>>, <<579, 579, 1, -195>>, <<580, 580, 1, 69>>,
       <<581, 581, 1, 71>>, <<582, 590, 2, 1>>, <<880, 882, 2, 1>>,
       <<886, 886, 1, 1>>, <<895, 895, 1, 116>>, <<902, 902, 1, 38>>,
       <<904, 906, 1, 37>>, <<908, 908, 1, 64>>, <<910, 911, 1, 63>>,
       <<913, 929, 1, 32>>, <<931, 939, 1, 32>>, <<975, 975, 1, 8>>,
       <<984, 1006, 2, 1>>, <<1012, 1012, 1, -60>>, <<1015, 1015, 1, 1>>,
       <<1017, 1017, 1, -7>>, <<1018, 1018, 1, 1>>, <<1021, 1023, 1, -130>>,
       <<1024, 1039, 1, 80>>, <<1040, 1071, 1, 32>>, <<1120, 1152, 2, 1>>,
       <<1162, 1214, 2, 1>>, <<1216, 1216, 1, 15>>, <<1217, 1229, 2, 1>>,
       <<1232, 1326, 2, 1>>, <<1329, 1366, 1, 48>>, <<4256, 4293, 1, 7264>>,
       <<4295, 4295, 1, 7264>>, <<4301, 4301, 1, 7264>>,
       <<5024, 5103, 1, 38864>>, <<5104, 5109, 1, 8>>,
       <<7312, 7354, 1, -3008>>, <<7357, 7359, 1, -3008>>,
       <<7680, 7828, 2, 1>>, <<7838, 7838, 1, -7615>>, <<7840, 7934, 2, 1>>,
       <<7944, 7951, 1, -8>>, <<7960, 7965, 1, -8>>, <<7976, 7983, 1, -8>>,
       <<7992, 7999, 1, -8>>, <<8008, 8013, 1, -8>>, <<8025, 8031, 2, -8>>,
       <<8040, 8047, 1, -8>>, <<8072, 8079, 1, -8>>, <<8088, 8095, 1, -8>>,
       <<8104, 8111, 1, -8>>, <<8120, 8121, 1, -8>>, <<8122, 8123, 1, -74>>,
       <<8124, 8124, 1, -9>>, <<8136, 8139, 1, -86>>, <<8140, 8140, 1, -9>>,
       <<8152, 8153, 1, -8>>, <<8154, 8155, 1, -100>>, <<8168, 8169, 1, -8>>,
       <<8170, 8171, 1, -112>>, <<8172, 8172, 1, -7>>,
       <<8184, 8185, 1, -128>>, <<8186, 8187, 1, -126>>,
       <<8188, 8188, 1, -9>>, <<8486, 8486, 1, -7517>>,
       <<8490, 8490, 1, -8383>>, <<8491, 8491, 1, -8262>>,
       <<8498, 8498, 1, 28>>, <<8544, 8559, 1, 16>>, <<8579, 8579, 1, 1>>,
       <<9398, 9423, 1, 26>>, <<11264, 11311, 1, 48>>, <<11360, 11360, 1, 1>>,
       <<11362, 11362, 1, -10743>>, <<11363, 11363, 1, -3814>>,
       <<11364, 11364, 1, -10727>>, <<11367, 11371, 2, 1>>,
       <<11373, 11373, 1, -10780>>, <<11374, 11374, 1, -10749>>,
       <<11375, 11375, 1, -10783>>, <<11376, 11376, 1, -10782>>,
       <<11378, 11378, 1, 1>>, <<11381, 11381, 1, 1>>,
       <<11390, 11391, 1, -10815>>, <<11392, 11490, 2, 1>>,
       <<11499, 11501, 2, 1>>, <<11506, 11506, 1, 1>>, <<42560, 42604, 2, 1>>,
       <<42624, 42650, 2, 1>>, <<42786, 42798, 2, 1>>, <<42802, 42862, 2, 1>>,
       <<42873, 42875, 2, 1>>, <<42877, 42877, 1, -35332>>,
       <<42878, 42886, 2, 1>>, <<42891, 42891, 1, 1>>,
       <<42893, 42893, 1, -42280>>, <<42896, 42898, 2, 1>>,
       <<42902, 42920, 2, 1>>, <<42922, 42922, 1, -42308>>,
       <<42923, 42923, 1, -42319>>, <<42924, 42924, 1, -42315>>,
       <<42925, 42925, 1, -42305>>, <<42926, 42926, 1, -42308>>,
       <<42928, 42928, 1, -42258>>, <<42929, 42929, 1, -42282>>,
       <<42930, 42930, 1, -42261>>, <<42931, 42931, 1, 928>>,
       <<42932, 42946, 2, 1>>, <<42948, 42948, 1, -48>>,
       <<42949, 42949, 1, -42307>>, <<42950, 42950, 1, -35384>>,
       <<42951, 42953, 2, 1>>, <<42960, 42960, 1, 1>>, <<42966, 42968, 2, 1>>,
       <<42997, 42997, 1, 1>>, <<65313, 65338, 1, 32>>,
       <<66560, 66599, 1, 40>>, <<66736, 66771, 1, 40>>,
       <<66928, 66964, 2, 39>>, <<66929, 66938, 1, 39>>,
       <<66941, 66954, 1, 39>>, <<66957, 66962, 1, 39>>,
       <<66965, 66965, 1, 39>>, <<68736, 68786, 1, 64>>,
       <<71840, 71871, 1, 32>>, <<93760, 93791, 1, 32>>,
       <<125184, 125217, 1, 34>> >>

\* The ranges <<first, last>> of the cased code points that are not
\* case-ignorable (the context of a final sigma).
CASED_RANGES ==
    << <<65, 90>>, <<97, 122>>, <<170, 170>>, <<181, 181>>, <<186, 186>>,
       <<192, 214>>, <<216, 246>>, <<248, 442>>, <<444, 447>>, <<452, 659>>,
       <<661, 687>>, <<880, 883>>, <<886, 887>>, <<891, 893>>, <<895, 895>>,
       <<902, 902>>, <<904, 906>>, <<908, 908>>, <<910, 929>>, <<931, 1013>>,
       <<1015, 1153>>, <<1162, 1327>>, <<1329, 1366>>, <<1376, 1416>>,
       <<4256, 4293>>, <<4295, 4295>>, <<4301, 4301>>, <<4304, 4346>>,
       <<4349, 4351>>, <<5024, 5109>>, <<5112, 5117>>, <<7296, 7304>>,
       <<7312, 7354>>, <<7357, 7359>>, <<7424, 7467>>, <<7531, 7543>>,
       <<7545, 7578>>, <<7680, 7957>>, <<7960, 7965>>, <<7968, 8005>>,
       <<8008, 8013>>, <<8016, 8023>>, <<8025, 8025>>, <<8027, 8027>>,
       <<8029, 8029>>, <<8031, 8061>>, <<8064, 8116>>, <<8118, 8124>>,
       <<8126, 8126>>, <<8130, 8132>>, <<8134, 8140>>, <<8144, 8147>>,
       <<8150, 8155>>, <<8160, 8172>>, <<8178, 8180>>, <<8182, 8188>>,
       <<8450, 8450>>, <<8455, 8455>>, <<8458, 8467>>, <<8469, 8469>>,
       <<8473, 8477>>, <<8484, 8484>>, <<8486, 8486>>, <<8488, 8488>>,
       <<8490, 8493>>, <<8495, 8500>>, <<8505, 8505>>, <<8508, 8511>>,
       <<8517, 8521>>, <<8526, 8526>>, <<8544, 8575>>, <<8579, 8580>>,
       <<9398, 9449>>, <<11264, 11387>>, <<11390, 11492>>, <<11499, 11502>>,
       <<11506, 11507>>, <<11520, 11557>>, <<11559, 11559>>, <<11565, 11565>>,
       <<42560, 42605>>, <<42624, 42651>>, <<42786, 42863>>, <<42865, 42887>>,
       <<42891, 42894>>, <<42896, 42954>>, <<42960, 42961>>, <<42963, 42963>>,
       <<42965, 42969>>, <<42997, 42998>>, <<43002, 43002>>, <<43824, 43866>>,
       <<43872, 43880>>, <<43888, 43967>>, <<64256, 64262>>, <<64275, 64279>>,
       <<65313, 65338>>, <<65345, 65370>>, <<66560, 66639>>, <<66736, 66771>>,
       <<66776, 66811>>, <<66928, 66938>>, <<66940, 66954>>, <<66956, 66962>>,
       <<66964, 66965>>, <<66967, 66977>>, <<66979, 66993>>, <<66995, 67001>>,
       <<67003, 67004>>, <<68736, 68786>>, <<68800, 68850>>, <<71840, 71903>>,
       <<93760, 93823>>, <<119808, 119892>>, <<119894, 119964>>,
       <<119966, 119967>>, <<119970, 119970>>, <<119973, 119974>>,
       <<119977, 119980>>, <<119982, 119993>>, <<119995, 119995>>,
       <<119997, 120003>>, <<120005, 120069>>, <<120071, 120074>>,
       <<120077, 120084>>, <<120086, 120092>>, <<120094, 120121>>,
       <<120123, 120126>>, <<120128, 120132>>, <<120134, 120134>>,
       <<120138, 120144>>, <<120146, 120485>>, <<120488, 120512>>,
       <<120514, 120538>>, <<120540, 120570>>, <<120572, 120596>>,
       <<120598, 120628>>, <<120630, 120654>>, <<120656, 120686>>,
       <<120688, 120712>>, <<120714, 120744>>, <<120746, 120770>>,
       <<120772, 120779>>, <<122624, 122633>>, <<122635, 122654>>,
       <<125184, 125251>>, <<127280, 127305>>, <<127312, 127337>>,
       <<127344, 127369>> >>

\* The ranges <<first, last>> of the case-ignorable code points.
CASE_IGNORABLE_RANGES ==
    << <<39, 39>>, <<46, 46>>, <<58, 58>>, <<94, 94>>, <<96, 96>>,
       <<168, 168>>, <<173, 173>>, <<175, 175>>, <<180, 180>>, <<183, 184>>,
       <<688, 879>>, <<884, 885>>, <<890, 890>>, <<900, 901>>, <<903, 903>>,
       <<1155, 1161>>, <<1369, 1369>>, <<1375, 1375>>, <<1425, 1469>>,
       <<1471, 1471>>, <<1473, 1474>>, <<1476, 1477>>, <<1479, 1479>>,
       <<1524, 1524>>, <<1536, 1541>>, <<1552, 1562>>, <<1564, 1564>>,
       <<1600, 1600>>, <<1611, 1631>>, <<1648, 1648>>, <<1750, 1757>>,
       <<1759, 1768>>, <<1770, 1773>>, <<1807, 1807>>, <<1809, 1809>>,
       <<1840, 1866>>, <<1958, 1968>>, <<2027, 2037>>, <<2042, 2042>>,
       <<2045, 2045>>, <<2070, 2093>>, <<2137, 2139>>, <<2184, 2184>>,
       <<2192, 2193>>, <<2200, 2207>>, <<2249, 2306>>, <<2362, 2362>>,
       <<2364, 2364>>, <<2369, 2376>>, <<2381, 2381>>, <<2385, 2391>>,
       <<2402, 2403>>, <<2417, 2417>>, <<2433, 2433>>, <<2492, 2492>>,
       <<2497, 2500>>, <<2509, 2509>>, <<2530, 2531>>, <<2558, 2558>>,
       <<2561, 2562>>, <<2620, 2620>>, <<2625, 2626>>, <<2631, 2632>>,
       <<2635, 2637>>, <<2641, 2641>>, <<2672, 2673>>, <<2677, 2677>>,
       <<2689, 2690>>, <<2748, 2748>>, <<2753, 2757>>, <<2759, 2760>>,
       <<2765, 2765>>, <<2786, 2787>>, <<2810, 2815>>, <<2817, 2817>>,
       <<2876, 2876>>, <<2879, 2879>>, <<2881, 2884>>, <<2893, 2893>>,
       <<2901, 2902>>, <<2914, 2915>>, <<2946, 2946>>, <<3008, 3008>>,
       <<3021, 3021>>, <<3072, 3072>>, <<3076, 3076>>, <<3132, 3132>>,
       <<3134, 3136>>, <<3142, 3144>>, <<3146, 3149>>, <<3157, 3158>>,
       <<3170, 3171>>, <<3201, 3201>>, <<3260, 3260>>, <<3263, 3263>>,
       <<3270, 3270>>, <<3276, 3277>>, <<3298, 3299>>, <<3328, 3329>>,
       <<3387, 3388>>, <<3393, 3396>>, <<3405, 3405>>, <<3426, 3427>>,
       <<3457, 3457>>, <<3530, 3530>>, <<3538, 3540>>, <<3542, 3542>>,
       <<3633, 3633>>, <<3636, 3642>>, <<3654, 3662>>, <<3761, 3761>>,
       <<3764, 3772>>, <<3782, 3782>>, <<3784, 3789>>, <<3864, 3865>>,
       <<3893, 3893>>, <<3895, 3895>>, <<3897, 3897>>, <<3953, 3966>>,
       <<3968, 3972>>, <<3974, 3975>>, <<3981, 3991>>, <<3993, 4028>>,
       <<4038, 4038>>, <<4141, 4144>>, <<4146, 4151>>, <<4153, 4154>>,
       <<4157, 4158>>, <<4184, 4185>>, <<4190, 4192>>, <<4209, 4212>>,
       <<4226, 4226>>, <<4229, 4230>>, <<4237, 4237>>, <<4253, 4253>>,
       <<4348, 4348>>, <<4957, 4959>>, <<5906, 5908>>, <<5938, 5939>>,
       <<5970, 5971>>, <<6002, 6003>>, <<6068, 6069>>, <<6071, 6077>>,
       <<6086, 6086>>, <<6089, 6099>>, <<6103, 6103>>, <<6109, 6109>>,
       <<6155, 6159>>, <<6211, 6211>>, <<6277, 6278>>, <<6313, 6313>>,
       <<6432, 6434>>, <<6439, 6440>>, <<6450, 6450>>, <<6457, 6459>>,
       <<6679, 6680>>, <<6683, 6683>>, <<6742, 6742>>, <<6744, 6750>>,
       <<6752, 6752>>, <<6754, 6754>>, <<6757, 6764>>, <<6771, 6780>>,
       <<6783, 6783>>, <<6823, 6823>>, <<6832, 6862>>, <<6912, 6915>>,
       <<6964, 6964>>, <<6966, 6970>>, <<6972, 6972>>, <<6978, 6978>>,
       <<7019, 7027>>, <<7040, 7041>>, <<7074, 7077>>, <<7080, 7081>>,
       <<7083, 7085>>, <<7142, 7142>>, <<7144, 7145>>, <<7149, 7149>>,
       <<7151, 7153>>, <<7212, 7219>>, <<7222, 7223>>, <<7288, 7293>>,
       <<7376, 7378>>, <<7380, 7392>>, <<7394, 7400>>, <<7405, 7405>>,
       <<7412, 7412>>, <<7416, 7417>>, <<7468, 7530>>, <<7544, 7544>>,
       <<7579, 7679>>, <<8125, 8125>>, <<8127, 8129>>, <<8141, 8143>>,
       <<8157, 8159>>, <<8173, 8175>>, <<8189, 8190>>, <<8203, 8207>>,
       <<8216, 8217>>, <<8228, 8228>>, <<8231, 8231>>, <<8234, 8238>>,
       <<8288, 8292>>, <<8294, 8303>>, <<8305, 8305>>, <<8319, 8319>>,
       <<8336, 8348>>, <<8400, 8432>>, <<11388, 11389>>, <<11503, 11505>>,
       <<11631, 11631>>, <<11647, 11647>>, <<11744, 11775>>, <<11823, 11823>>,
       <<12293, 12293>>, <<12330, 12333>>, <<12337, 12341>>, <<12347, 12347>>,
       <<12441, 12446>>, <<12540, 12542>>, <<40981, 40981>>, <<42232, 42237>>,
       <<42508, 42508>>, <<42607, 42610>>, <<42612, 42621>>, <<42623, 42623>>,
       <<42652, 42655>>, <<42736, 42737>>, <<42752, 42785>>, <<42864, 42864>>,
       <<42888, 42890>>, <<42994, 42996>>, <<43000, 43001>>, <<43010, 43010>>,
       <<43014, 43014>>, <<43019, 43019>>, <<43045, 43046>>, <<43052, 43052>>,
       <<43204, 43205>>, <<43232, 43249>>, <<43263, 43263>>, <<43302, 43309>>,
       <<43335, 43345>>, <<43392, 43394>>, <<43443, 43443>>, <<43446, 43449>>,
       <<43452, 43453>>, <<43471, 43471>>, <<43493, 43494>>, <<43561, 43566>>,
       <<43569, 43570>>, <<43573, 43574>>, <<43587, 43587>>, <<43596, 43596>>,
       <<43632, 43632>>, <<43644, 43644>>, <<43696, 43696>>, <<43698, 43700>>,
       <<43703, 43704>>, <<43710, 43711>>, <<43713, 43713>>, <<43741, 43741>>,
       <<43756, 43757>>, <<43763, 43764>>, <<43766, 43766>>, <<43867, 43871>>,
       <<43881, 43883>>, <<44005, 44005>>, <<44008, 44008>>, <<44013, 44013>>,
       <<64286, 64286>>, <<64434, 64450>>, <<65024, 65039>>, <<65043, 65043>>,
       <<65056, 65071>>, <<65106, 65106>>, <<65109, 65109>>, <<65279, 65279>>,
       <<65287, 65287>>, <<65294, 65294>>, <<65306, 65306>>, <<65342, 65342>>,
       <<65344, 65344>>, <<65392, 65392>>, <<65438, 65439>>, <<65507, 65507>>,
       <<65529, 65531>>, <<66045, 66045>>, <<66272, 66272>>, <<66422, 66426>>,
       <<67456, 67461>>, <<67463, 67504>>, <<67506, 67514>>, <<68097, 68099>>,
       <<68101, 68102>>, <<68108, 68111>>, <<68152, 68154>>, <<68159, 68159>>,
       <<68325, 68326>>, <<68900, 68903>>, <<69291, 69292>>, <<69446, 69456>>,
       <<69506, 69509>>, <<69633, 69633>>, <<69688, 69702>>, <<69744, 69744>>,
       <<69747, 69748>>, <<69759, 69761>>, <<69811, 69814>>, <<69817, 69818>>,
       <<69821, 69821>>, <<69826, 69826>>, <<69837, 69837>>, <<69888, 69890>>,
       <<69927, 69931>>, <<69933, 69940>>, <<70003, 70003>>, <<70016, 70017>>,
       <<70070, 70078>>, <<70089, 70092>>, <<70095, 70095>>, <<70191, 70193>>,
       <<70196, 70196>>, <<70198, 70199>>, <<70206, 70206>>, <<70367, 70367>>,
       <<70371, 70378>>, <<70400, 70401>>, <<70459, 70460>>, <<70464, 70464>>,
       <<70502, 70508>>, <<70512, 70516>>, <<70712, 70719>>, <<70722, 70724>>,
       <<70726, 70726>>, <<70750, 70750>>, <<70835, 70840>>, <<70842, 70842>>,
       <<70847, 70848>>, <<70850, 70851>>, <<71090, 71093>>, <<71100, 71101>>,
       <<71103, 71104>>, <<71132, 71133>>, <<71219, 71226>>, <<71229, 71229>>,
       <<71231, 71232>>, <<71339, 71339>>, <<71341, 71341>>, <<71344, 71349>>,
       <<71351, 71351>>, <<71453, 71455>>, <<71458, 71461>>, <<71463, 71467>>,
       <<71727, 71735>>, <<71737, 71738>>, <<71995, 71996>>, <<71998, 71998>>,
       <<72003, 72003>>, <<72148, 72151>>, <<72154, 72155>>, <<72160, 72160>>,
       <<72193, 72202>>, <<72243, 72248>>, <<72251, 72254>>, <<72263, 72263>>,
       <<72273, 72278>>, <<72281, 72283>>, <<72330, 72342>>, <<72344, 72345>>,
       <<72752, 72758>>, <<72760, 72765>>, <<72767, 72767>>, <<72850, 72871>>,
       <<72874, 72880>>, <<72882, 72883>>, <<72885, 72886>>, <<73009, 73014>>,
       <<73018, 73018>>, <<73020, 73021>>, <<73023, 73029>>, <<73031, 73031>>,
       <<73104, 73105>>, <<73109, 73109>>, <<73111, 73111>>, <<73459, 73460>>,
       <<78896, 78904>>, <<92912, 92916>>, <<92976, 92982>>, <<92992, 92995>>,
       <<94031, 94031>>, <<94095, 94111>>, <<94176, 94177>>, <<94179, 94180>>,
       <<110576, 110579>>, <<110581, 110587>>, <<110589, 110590>>,
       <<113821, 113822>>, <<113824, 113827>>, <<118528, 118573>>,
       <<118576, 118598>>, <<119143, 119145>>, <<119155, 119170>>,
       <<119173, 119179>>, <<119210, 119213>>, <<119362, 119364>>,
       <<121344, 121398>>, <<121403, 121452>>, <<121461, 121461>>,
       <<121476, 121476>>, <<121499, 121503>>, <<121505, 121519>>,
       <<122880, 122886>>, <<122888, 122904>>, <<122907, 122913>>,
       <<122915, 122916>>, <<122918, 122922>>, <<123184, 123197>>,
       <<123566, 123566>>, <<123628, 123631>>, <<125136, 125142>>,
       <<125252, 125259>>, <<127995, 127999>>, <<917505, 917505>>,
       <<917536, 917631>>, <<917760, 917999>> >>

\* ------------------------------------------------------------------------
\* Python's string operations, as the source uses them.

Min(a, b) == IF a <= b THEN a ELSE b

\* n filler characters: "x" * n
Pad(n) == [i \in 1..n |-> 120]

\* s[:n] for n >= 0
Slice(s, n) == SubSeq(s, 1, Min(n, Len(s)))

\* s.startswith(p)
startswith(s, p) == Len(p) <= Len(s) /\ SubSeq(s, 1, Len(p)) = p

\* s.endswith(p)
endswith(s, p) ==
    Len(p) <= Len(s) /\ SubSeq(s, Len(s) - Len(p) + 1, Len(s)) = p

InRanges(c, ranges) ==
    \E k \in 1..Len(ranges) : ranges[k][1] <= c /\ c <= ranges[k][2]

is_cased(c) == InRanges(c, CASED_RANGES)

is_case_ignorable(c) == InRanges(c, CASE_IGNORABLE_RANGES)

\* The lower case of one code point other than capital sigma: LATIN CAPITAL
\* LETTER I WITH DOT ABOVE becomes two code points, a code point of
\* LOWER_ROWS is shifted, and any other code point stays.
LowerChar(c) ==
    IF c = 304 THEN <<105, 775>>
    ELSE IF \E k \in 1..Len(LOWER_ROWS) :
                /\ LOWER_ROWS[k][1] <= c
                /\ c <= LOWER_ROWS[k][2]
                /\ (c - LOWER_ROWS[k][1]) % LOWER_ROWS[k][3] = 0
    THEN LET k == CHOOSE k \in 1..Len(LOWER_ROWS) :
                      /\ LOWER_ROWS[k][1] <= c
                      /\ c <= LOWER_ROWS[k][2]
                      /\ (c - LOWER_ROWS[k][1]) % LOWER_ROWS[k][3] = 0
         IN  <<c + LOWER_ROWS[k][4]>>
    ELSE <<c>>

\* The lower case of the capital sigma at s[i]: the final sigma when the
\* nearest code point before it that is not case-ignorable is cased, and
\* the nearest such code point after it, if any, is not cased.
LowerSigma(s, i) ==
    LET before == {j \in 1..(i - 1) : ~is_case_ignorable(s[j])}
        after == {j \in (i + 1)..Len(s) : ~is_case_ignorable(s[j])}
        prev == CHOOSE j \in before : \A k \in before : k <= j
        next == CHOOSE j \in after : \A k \in after : j <= k
    IN  IF /\ before # {}
           /\ is_cased(s[prev])
           /\ (after = {} \/ ~is_cased(s[next]))
        THEN <<962>>
        ELSE <<963>>

\* The lower-cased code points of s[lo..hi], each in the context of the
\* whole of s, concatenated in order.
RECURSIVE LowerRange(_, _, _)
LowerRange(s, lo, hi) ==
    IF lo > hi THEN <<>>
    ELSE IF lo = hi
    THEN IF s[lo] = 931 THEN LowerSigma(s, lo) ELSE LowerChar(s[lo])
    ELSE LET mid == (lo + hi) \div 2
         IN  LowerRange(s, lo, mid) \o LowerRange(s, mid + 1, hi)

\* s.lower()
lower(s) == LowerRange(s, 1, Len(s))

\* s.strip()
strip(s) ==
    LET keep == {i \in 1..Len(s) : s[i] \notin WHITESPACE}
    IN  IF keep = {} THEN <<>>
        ELSE SubSeq(s, CHOOSE i \in keep : \A j \in keep : i <= j,
                       CHOOSE i \in keep : \A j \in keep : j <= i)

\* str(n) of an int n >= 0, as the f-string of line 70 formats the status:
\* the digit d is the code point 48 + d.
RECURSIVE str(_)
str(n) ==
    IF n < 10 THEN <<48 + n>>
    ELSE str(n \div 10) \o <<48 + (n % 10)>>

\* A truth test that takes the empty string for a credential.
truthy_unset_only(v) == v # None

\* Python's truth value of an optional string: None and "" are false.
truthy(v) == v # None /\ v # <<>>

\* The test of line 126: the content is handed to the image backend.
is_image_url(content) ==
    /\ startswith(content, STR_HTTP)
    /\ \E ext \in IMAGE_EXTENSIONS : endswith(lower(content), ext)

\* The test of line 176 on one attachment.
is_image_attachment(attachment) ==
    /\ truthy(attachment.content_type)
    /\ startswith(attachment.content_type, STR_IMAGE)

\* An embed that takes the analysis whole.
description_untruncated(analysis) == analysis

\* The description of an embed: analysis[:2000] (lines 141 and 199).
description_of(analysis) == Slice(analysis, MAX_DESCRIPTION_LEN)

\* A length guard that also rejects an input of exactly 500.
too_long_inclusive(content) == Len(content) >= MAX_CONTENT_LEN

\* len(content) > 500 (lines 131 and 184).
too_long(content) == Len(content) > MAX_CONTENT_LEN

\* ------------------------------------------------------------------------
\* The inputs: what the chat platform and the two backends can hand to the
\* cog.  Every set is bounded by the bounds above.

\* "", "http", "http://", "https://", "HTTP://"
Heads ==
    { <<>>,
      <<104, 116, 116, 112>>,
      <<104, 116, 116, 112, 58, 47, 47>>,
      <<104, 116, 116, 112, 115, 58, 47, 47>>,
      <<72, 84, 84, 80, 58, 47, 47>> }

\* "", ".jpg", ".jpeg", ".png", ".gif", ".PnG", ".bmp", ".G\u0130F"
Tails ==
    { <<>>,
      <<46, 106, 112, 103>>, <<46, 106, 112, 101, 103>>,
      <<46, 112, 110, 103>>, <<46, 103, 105, 102>>,
      <<46, 80, 110, 71>>, <<46, 98, 109, 112>>,
      <<46, 71, 304, 70>> }

ShortContents ==
    { h \o Pad(n) \o tl : h \in Heads, n \in 0..MaxPad, tl \in Tails }

LongLengths == (MAX_CONTENT_LEN - 1)..(MAX_CONTENT_LEN + LenSlack)

\* "http://" + "x" * (n - 11) + ".png", of n code points
LongUrl(n) ==
    <<104, 116, 116, 112, 58, 47, 47>> \o Pad(n - 11) \o <<46, 112, 110, 103>>

LongContents ==
    { Pad(n) : n \in LongLengths } \cup { LongUrl(n) : n \in LongLengths }

\* The values of the command's content parameter.
CommandContents == ShortContents \cup LongContents

\* content_type "image/png", url "https://cdn/a"
ImageAttachment ==
    [content_type |-> <<105, 109, 97, 103, 101, 47, 112, 110, 103>>,
     url |-> <<104, 116, 116, 112, 115, 58, 47, 47, 99, 100, 110, 47, 97>>]

\* content_type "application/pdf", url "https://cdn/b"
PdfAttachment ==
    [content_type |-> <<97, 112, 112, 108, 105, 99, 97, 116, 105, 111, 110, 47, 112, 100, 102>>,
     url |-> <<104, 116, 116, 112, 115, 58, 47, 47, 99, 100, 110, 47, 98>>]

\* content_type None, url "https://cdn/c"
UntypedAttachment ==
    [content_type |-> None,
     url |-> <<104, 116, 116, 112, 115, 58, 47, 47, 99, 100, 110, 47, 99>>]

AttachmentLists ==
    { <<>>, <<ImageAttachment>>, <<PdfAttachment>>, <<UntypedAttachment>>,
      <<PdfAttachment, ImageAttachment>> }

\* "", "ha", and texts around the length guard
MessageContents ==
    { <<>>, <<104, 97>> } \cup { Pad(n) : n \in LongLengths }

\* reaction.message: its content and its attachments.
Messages == [content : MessageContents, attachments : AttachmentLists]

\* Another emoji than the trigger: "\U0001f600"
OTHER_EMOJI == <<128512>>

\* str(reaction.emoji)
Emojis == { EMOJI_TRIGGER, OTHER_EMOJI }

\* os.getenv of a credential: unset, set to "", or set to "sk"
KeyValues == { None, <<>>, <<115, 107>> }

ResultLengths ==
    (MAX_DESCRIPTION_LEN - 1)..(MAX_DESCRIPTION_LEN + ResultSlack)

\* The content field of a successful completion: "", "ok", "\u3000ok\n",
\* and texts around the truncation.
ResultTexts ==
    { <<>>, <<111, 107>>, <<12288, 111, 107, 10>> }
        \cup { Pad(n) : n \in ResultLengths }

\* str(e) of a transport failure.
ExceptionTexts == { STR_TIMEOUT, Pad(MAX_DESCRIPTION_LEN) }

ErrorStatuses == { 201, 404, 500 }

\* What one request of the text path ends in: a transport failure, a
\* response with a status other than 200, or a 200 response whose JSON
\* either lacks the content field, or holds None, or holds a string.
TextOutcomes ==
    [kind : {"exc"}, status : {0}, has_content : {FALSE},
     content : {None}, msg : ExceptionTexts]
    \cup [kind : {"http"}, status : ErrorStatuses, has_content : {FALSE},
          content : {None}, msg : {<<>>}]
    \cup [kind : {"http"}, status : {HTTP_OK}, has_content : {FALSE},
          content : {None}, msg : {<<>>}]
    \cup [kind : {"http"}, status : {HTTP_OK}, has_content : {TRUE},
          content : ResultTexts \cup {None}, msg : {<<>>}]

\* What one chat.completions.create call of the image path ends in: an
\* exception, or a completion whose content is a string or None.
ImageOutcomes ==
    [kind : {"exc"}, content : {None}, msg : ExceptionTexts]
    \cup [kind : {"ok"}, content : ResultTexts \cup {None}, msg : {<<>>}]

\* ------------------------------------------------------------------------
\* The state.

Tasks == 1..NumTasks

VARIABLES
    deepseek_api_key,  \* self.deepseek_api_key (line 23)
    MINIMAX_API_KEY,   \* self.MINIMAX_API_KEY (line 26)
    pc,                \* pc[t]: where invocation t stands
    entry,             \* entry[t]: "command", "reaction", or "none" before
    branch,            \* branch[t]: the branch of its handler t takes
    content,           \* the command's content, or message.content
    attachments,       \* message.attachments
    user_bot,          \* user.bot
    emoji,             \* str(reaction.emoji)
    analysis,          \* the handler's local analysis
    attempt,           \* the retry loop's attempt (line 100)
    log,               \* log[t]: what t asked of the outside world, in order
    indicator,         \* whether the bot's processing reaction is on the message
    running            \* the task that holds the event loop's thread, or 0
                       \* when every task is suspended in an await

vars ==
    <<deepseek_api_key, MINIMAX_API_KEY, pc, entry, branch, content,
      attachments, user_bot, emoji, analysis, attempt, log, indicator,
      running>>

\* self.minimax_client is not None (lines 27 to 33)
minimax_client_configured == truthy(MINIMAX_API_KEY)

\* The event loop starts or resumes t only when no task holds its thread.
resumes(t) == running = 0

\* t holds the thread: it has not reached an await that suspends it.
continues(t) == running = t

Terminated(t) == pc[t] \in {"done", "raised"}

\* Events of the log.  A send is logged when it is awaited, with what the
\* platform will answer.
SendText(text, ok) == [ev |-> "send", kind |-> "text", text |-> text, ok |-> ok]

SendEmbed(ttl, description, image, ok) ==
    [ev |-> "send", kind |-> "embed", title |-> ttl,
     description |-> description, image |-> image, ok |-> ok]

CallEvent(name, arg) == [ev |-> name, arg |-> arg]

ReturnEvent(name, outcome) == [ev |-> name, outcome |-> outcome]

SleepEvent(secs) == [ev |-> "sleep", secs |-> secs]

\* message.add_reaction (line 166)
AddReaction == CallEvent("add_reaction", PROCESSING_EMOJI)

\* message.remove_reaction (lines 186, 193 and 230)
RemoveReaction == CallEvent("remove_reaction", PROCESSING_EMOJI)

\* Whether the platform delivers the send t is suspended in.
last_send_ok(t) == log[t][Len(log[t])].ok

Init ==
    /\ deepseek_api_key \in KeyValues
    /\ MINIMAX_API_KEY \in KeyValues
    /\ pc = [t \in Tasks |-> "idle"]
    /\ entry = [t \in Tasks |-> "none"]
    /\ branch = [t \in Tasks |-> "none"]
    /\ content = [t \in Tasks |-> <<>>]
    /\ attachments = [t \in Tasks |-> <<>>]
    /\ user_bot = [t \in Tasks |-> FALSE]
    /\ emoji = [t \in Tasks |-> <<>>]
    /\ analysis = [t \in Tasks |-> <<>>]
    /\ attempt = [t \in Tasks |-> 0]
    /\ log = [t \in Tasks |-> <<>>]
    /\ indicator = [t \in Tasks |-> FALSE]
    /\ running = 0

\* ------------------------------------------------------------------------
\* analyze_joke_command, to its first await (lines 123 to 134): the content
\* is classified and the notice, or the rejection, is sent.

command_branch(c) ==
    IF is_image_url(c) THEN "image"
    ELSE IF too_long(c) THEN "reject"
    ELSE "text"

analyze_joke_command(t, c) ==
    LET br == command_branch(c) IN
    /\ resumes(t)
    /\ pc[t] = "idle"
    /\ entry' = [entry EXCEPT ![t] = "command"]
    /\ content' = [content EXCEPT ![t] = c]
    /\ branch' = [branch EXCEPT ![t] = br]
    /\ log' = [log EXCEPT ![t] =
                 <<SendText(CASE br = "image" -> MSG_ANALYZING_IMAGE
                              [] br = "reject" -> MSG_CONTENT_TOO_LONG
                              [] OTHER -> MSG_ANALYZING_TEXT,
                            TRUE)>>]
    /\ pc' = [pc EXCEPT ![t] = "sending_notice"]
    /\ UNCHANGED <<deepseek_api_key, MINIMAX_API_KEY, attachments, user_bot,
                   emoji, analysis, attempt, indicator, running>>

\* The send of line 127, 132 or 134 is over: the handler returns after the
\* rejection (line 133), or calls its analysis function (lines 128, 135).
command_notice_sent(t) ==
    /\ resumes(t)
    /\ pc[t] = "sending_notice"
    /\ pc' = [pc EXCEPT ![t] =
                 CASE branch[t] = "image" -> "image_enter"
                   [] branch[t] = "reject" -> "done"
                   [] OTHER -> "text_enter"]
    /\ running' = IF branch[t] = "reject" THEN 0 ELSE t
    /\ UNCHANGED <<deepseek_api_key, MINIMAX_API_KEY, entry, branch, content,
                   attachments, user_bot, emoji, analysis, attempt, log,
                   indicator>>

\* ------------------------------------------------------------------------
\* on_reaction_add, to its first await (lines 149 to 166): the reaction is
\* ignored, or the processing reaction is asked for.

reaction_ignored(m, bot, e) ==
    \/ bot
    \/ e # EMOJI_TRIGGER
    \/ (~truthy(m.content) /\ ~(m.attachments # <<>>))

\* The branch of lines 174 to 194.
reaction_branch(m, bot, e) ==
    IF reaction_ignored(m, bot, e) THEN "ignored"
    ELSE IF m.attachments # <<>>
    THEN IF is_image_attachment(m.attachments[1]) THEN "image" ELSE "skip"
    ELSE IF truthy(m.content)
    THEN IF too_long(m.content) THEN "reject" ELSE "text"
    ELSE "empty"

on_reaction_add(t, m, bot, e) ==
    LET br == reaction_branch(m, bot, e) IN
    /\ resumes(t)
    /\ pc[t] = "idle"
    /\ entry' = [entry EXCEPT ![t] = "reaction"]
    /\ content' = [content EXCEPT ![t] = m.content]
    /\ attachments' = [attachments EXCEPT ![t] = m.attachments]
    /\ user_bot' = [user_bot EXCEPT ![t] = bot]
    /\ emoji' = [emoji EXCEPT ![t] = e]
    /\ branch' = [branch EXCEPT ![t] = br]
    /\ log' = [log EXCEPT ![t] =
                 IF br = "ignored" THEN <<>> ELSE <<AddReaction>>]
    /\ pc' = [pc EXCEPT ![t] =
                 IF br = "ignored" THEN "done" ELSE "adding_reaction"]
    /\ UNCHANGED <<deepseek_api_key, MINIMAX_API_KEY, analysis, attempt,
                   indicator, running>>

\* The processing reaction is on the message, and lines 168 to 194 run to
\* their first await: an analysis function is called, or the rejection is
\* sent (line 185; reply_ok says whether the platform will deliver it), or
\* the reaction is taken back (line 193).  A first attachment that is no
\* image leaves analysis and title empty and goes on to the embed.
reaction_dispatch(t, reply_ok) ==
    /\ resumes(t)
    /\ pc[t] = "adding_reaction"
    /\ indicator' = [indicator EXCEPT ![t] = TRUE]
    /\ log' = [log EXCEPT ![t] =
                 CASE branch[t] = "reject" ->
                        @ \o <<SendText(MSG_MESSAGE_TOO_LONG, reply_ok)>>
                   [] branch[t] = "empty" -> @ \o <<RemoveReaction>>
                   [] OTHER -> @]
    /\ pc' = [pc EXCEPT ![t] =
                 CASE branch[t] = "image" -> "image_enter"
                   [] branch[t] = "text" -> "text_enter"
                   [] branch[t] = "reject" -> "replying_rejection"
                   [] branch[t] = "empty" -> "removing_reaction"
                   [] OTHER -> "present"]
    /\ running' = IF branch[t] \in {"reject", "empty"} THEN 0 ELSE t
    /\ UNCHANGED <<deepseek_api_key, MINIMAX_API_KEY, entry, branch, content,
                   attachments, user_bot, emoji, analysis, attempt>>

\* The reply of line 185 is over.  Delivered, the reaction is taken back
\* (line 186); refused, the reply raises and the handler ends there.
reaction_rejection_replied(t) ==
    /\ resumes(t)
    /\ pc[t] = "replying_rejection"
    /\ IF last_send_ok(t)
       THEN /\ log' = [log EXCEPT ![t] = @ \o <<RemoveReaction>>]
            /\ pc' = [pc EXCEPT ![t] = "removing_reaction"]
       ELSE /\ log' = log
            /\ pc' = [pc EXCEPT ![t] = "raised"]
    /\ UNCHANGED <<deepseek_api_key, MINIMAX_API_KEY, entry, branch, content,
                   attachments, user_bot, emoji, analysis, attempt, indicator,
                   running>>

\* ------------------------------------------------------------------------
\* analyze_text_joke (lines 44 to 76).

\* The argument the handler passes to the analysis function: the command's
\* content (lines 128 and 135), the first attachment's url (line 178) or
\* message.content (line 190).
analysis_argument(t) ==
    IF entry[t] = "reaction" /\ branch[t] = "image"
    THEN attachments[t][1].url
    ELSE content[t]

\* A result that leaves the status out of the API error message.
text_result_without_status(o) ==
    IF o.kind = "exc" THEN MSG_TEXT_FAILED_HEAD \o o.msg
    ELSE IF o.status # HTTP_OK THEN MSG_API_ERROR_HEAD \o MSG_API_ERROR_TAIL
    ELSE IF ~o.has_content THEN MSG_TEXT_FAILED_HEAD \o STR_KEYERROR_CHOICES
    ELSE IF o.content = None THEN MSG_TEXT_FAILED_HEAD \o STR_NONE_HAS_NO_STRIP
    ELSE strip(o.content)

\* What analyze_text_joke returns once its request has ended in outcome o
\* (lines 66 to 76).
text_result(o) ==
    IF o.kind = "exc" THEN MSG_TEXT_FAILED_HEAD \o o.msg
    ELSE IF o.status # HTTP_OK
    THEN MSG_API_ERROR_HEAD \o str(o.status) \o MSG_API_ERROR_TAIL
    ELSE IF ~o.has_content THEN MSG_TEXT_FAILED_HEAD \o STR_KEYERROR_CHOICES
    ELSE IF o.content = None THEN MSG_TEXT_FAILED_HEAD \o STR_NONE_HAS_NO_STRIP
    ELSE strip(o.content)

\* Lines 44 to 62: the credential check; then the request is sent and the
\* task suspends on it.
analyze_text_joke_enter(t) ==
    /\ continues(t)
    /\ pc[t] = "text_enter"
    /\ IF ~truthy(deepseek_api_key)
       THEN /\ analysis' = [analysis EXCEPT ![t] = MSG_NO_DEEPSEEK_KEY]
            /\ log' = [log EXCEPT ![t] =
                         @ \o <<CallEvent("analyze_text", analysis_argument(t))>>]
            /\ pc' = [pc EXCEPT ![t] = "present"]
            /\ running' = t
       ELSE /\ analysis' = analysis
            /\ log' = [log EXCEPT ![t] =
                         @ \o <<CallEvent("analyze_text", analysis_argument(t)),
                                CallEvent("text_request", analysis_argument(t))>>]
            /\ pc' = [pc EXCEPT ![t] = "text_wait"]
            /\ running' = 0
    /\ UNCHANGED <<deepseek_api_key, MINIMAX_API_KEY, entry, branch, content,
                   attachments, user_bot, emoji, attempt, indicator>>

\* Lines 66 to 76: the request ends, within its 30 second timeout, in
\* outcome o and the function returns to the handler.
analyze_text_joke_response(t, o) ==
    /\ resumes(t)
    /\ pc[t] = "text_wait"
    /\ analysis' = [analysis EXCEPT ![t] = text_result(o)]
    /\ log' = [log EXCEPT ![t] = @ \o <<ReturnEvent("text_response", o)>>]
    /\ pc' = [pc EXCEPT ![t] = "present"]
    /\ running' = t
    /\ UNCHANGED <<deepseek_api_key, MINIMAX_API_KEY, entry, branch, content,
                   attachments, user_bot, emoji, attempt, indicator>>

\* ------------------------------------------------------------------------
\* analyze_image_joke (lines 78 to 116).

\* Lines 78 to 100: the client check, then the retry loop is entered.
analyze_image_joke_enter(t) ==
    /\ continues(t)
    /\ pc[t] = "image_enter"
    /\ log' = [log EXCEPT ![t] =
                 @ \o <<CallEvent("analyze_image", analysis_argument(t))>>]
    /\ IF ~minimax_client_configured
       THEN /\ analysis' = [analysis EXCEPT ![t] = MSG_NO_MINIMAX_KEY]
            /\ pc' = [pc EXCEPT ![t] = "present"]
       ELSE /\ analysis' = analysis
            /\ pc' = [pc EXCEPT ![t] = "image_call"]
    /\ attempt' = [attempt EXCEPT ![t] = 0]
    /\ UNCHANGED <<deepseek_api_key, MINIMAX_API_KEY, entry, branch, content,
                   attachments, user_bot, emoji, indicator, running>>

\* Line 102: chat.completions.create of the synchronous OpenAI client is
\* called without await, so the call runs on the event loop's thread and
\* t keeps the thread until the call returns.
analyze_image_joke_call(t) ==
    /\ continues(t)
    /\ pc[t] = "image_call"
    /\ log' = [log EXCEPT ![t] =
                 @ \o <<CallEvent("image_request", analysis_argument(t))>>]
    /\ pc' = [pc EXCEPT ![t] = "image_wait"]
    /\ UNCHANGED <<deepseek_api_key, MINIMAX_API_KEY, entry, branch, content,
                   attachments, user_bot, emoji, analysis, attempt, indicator,
                   running>>

\* A retry test that is off by one: it retries after the last attempt too.
retry_always_within(a) == a < max_retries

\* The retry test of line 109.
retry_allowed(a) == a < max_retries - 1

\* Lines 107 to 116: the call ends, within the client's 30 second timeout,
\* in outcome o.  A completion is returned as it is; an exception is
\* followed by a sleep, which suspends the task, while retries are left,
\* and becomes the failure result after the last attempt.
analyze_image_joke_return(t, o) ==
    /\ continues(t)
    /\ pc[t] = "image_wait"
    /\ IF o.kind = "ok"
       THEN /\ analysis' = [analysis EXCEPT ![t] = o.content]
            /\ log' = [log EXCEPT ![t] = @ \o <<ReturnEvent("image_response", o)>>]
            /\ pc' = [pc EXCEPT ![t] = "present"]
            /\ running' = t
       ELSE IF retry_allowed(attempt[t])
       THEN /\ analysis' = analysis
            /\ log' = [log EXCEPT ![t] =
                         @ \o <<ReturnEvent("image_response", o),
                                SleepEvent(RETRY_SLEEP)>>]
            /\ pc' = [pc EXCEPT ![t] = "image_sleep"]
            /\ running' = 0
       ELSE /\ analysis' = [analysis EXCEPT ![t] = MSG_IMAGE_FAILED_HEAD \o o.msg]
            /\ log' = [log EXCEPT ![t] = @ \o <<ReturnEvent("image_response", o)>>]
            /\ pc' = [pc EXCEPT ![t] = "present"]
            /\ running' = t
    /\ UNCHANGED <<deepseek_api_key, MINIMAX_API_KEY, entry, branch, content,
                   attachments, user_bot, emoji, attempt, indicator>>

\* Lines 111 and 100: the sleep is over and the loop takes its next attempt.
analyze_image_joke_wake(t) ==
    /\ resumes(t)
    /\ pc[t] = "image_sleep"
    /\ attempt' = [attempt EXCEPT ![t] = @ + 1]
    /\ pc' = [pc EXCEPT ![t] = "image_call"]
    /\ running' = t
    /\ UNCHANGED <<deepseek_api_key, MINIMAX_API_KEY, entry, branch, content,
                   attachments, user_bot, emoji, analysis, log, indicator>>

\* ------------------------------------------------------------------------
\* The handlers after the analysis.

\* title, as lines 129, 136, 169, 179 and 191 leave it.
title_of(t) ==
    IF entry[t] = "command"
    THEN IF branch[t] = "image" THEN TITLE_COMMAND_IMAGE ELSE TITLE_COMMAND_TEXT
    ELSE IF branch[t] = "image" THEN TITLE_AUTO_IMAGE
    ELSE IF branch[t] = "text" THEN TITLE_AUTO_TEXT
    ELSE <<>>

\* The url of embed.set_image (lines 204 and 205), None when it is not set.
image_of(t) ==
    IF entry[t] = "reaction" /\ branch[t] = "image"
    THEN attachments[t][1].url
    ELSE None

\* analyze_joke_command, lines 139 to 146: the embed is built and sent.
\* Slicing None raises TypeError.
command_present(t) ==
    /\ continues(t)
    /\ pc[t] = "present"
    /\ entry[t] = "command"
    /\ IF analysis[t] = None
       THEN /\ pc' = [pc EXCEPT ![t] = "raised"]
            /\ log' = log
       ELSE /\ pc' = [pc EXCEPT ![t] = "sending_embed"]
            /\ log' = [log EXCEPT ![t] =
                         @ \o <<SendEmbed(title_of(t), description_of(analysis[t]),
                                          image_of(t), TRUE)>>]
    /\ running' = 0
    /\ UNCHANGED <<deepseek_api_key, MINIMAX_API_KEY, entry, branch, content,
                   attachments, user_bot, emoji, analysis, attempt, indicator>>

\* The send of line 146 is over and the command returns.
command_embed_sent(t) ==
    /\ resumes(t)
    /\ pc[t] = "sending_embed"
    /\ pc' = [pc EXCEPT ![t] = "done"]
    /\ UNCHANGED <<deepseek_api_key, MINIMAX_API_KEY, entry, branch, content,
                   attachments, user_bot, emoji, analysis, attempt, log,
                   indicator, running>>

\* on_reaction_add, lines 196 to 225: the embed is built and the reply is
\* awaited; reply_ok says whether the platform will deliver it.  The embed
\* is built outside the try statement, so the TypeError of slicing None
\* leaves the handler at once.
reaction_present(t, reply_ok) ==
    /\ continues(t)
    /\ pc[t] = "present"
    /\ entry[t] = "reaction"
    /\ IF analysis[t] = None
       THEN /\ pc' = [pc EXCEPT ![t] = "raised"]
            /\ log' = log
       ELSE /\ pc' = [pc EXCEPT ![t] = "replying_embed"]
            /\ log' = [log EXCEPT ![t] =
                         @ \o <<SendEmbed(title_of(t), description_of(analysis[t]),
                                          image_of(t), reply_ok)>>]
    /\ running' = 0
    /\ UNCHANGED <<deepseek_api_key, MINIMAX_API_KEY, entry, branch, content,
                   attachments, user_bot, emoji, analysis, attempt, indicator>>

\* The reply of line 225 is over.  Delivered, the finally clause takes the
\* reaction back (line 230); refused, the except clause sends the fallback
\* reply (line 228; fallback_ok says whether the platform will deliver it).
reaction_embed_replied(t, fallback_ok) ==
    /\ resumes(t)
    /\ pc[t] = "replying_embed"
    /\ IF last_send_ok(t)
       THEN /\ log' = [log EXCEPT ![t] = @ \o <<RemoveReaction>>]
            /\ pc' = [pc EXCEPT ![t] = "removing_reaction"]
       ELSE /\ log' = [log EXCEPT ![t] =
                         @ \o <<SendText(MSG_REPLY_FAILED_HEAD \o STR_FORBIDDEN,
                                         fallback_ok)>>]
            /\ pc' = [pc EXCEPT ![t] = "replying_fallback"]
    /\ UNCHANGED <<deepseek_api_key, MINIMAX_API_KEY, entry, branch, content,
                   attachments, user_bot, emoji, analysis, attempt, indicator,
                   running>>

\* The reply of line 228 is over; delivered or refused, the finally clause
\* takes the reaction back (line 230).
reaction_fallback_replied(t) ==
    /\ resumes(t)
    /\ pc[t] = "replying_fallback"
    /\ log' = [log EXCEPT ![t] = @ \o <<RemoveReaction>>]
    /\ pc' = [pc EXCEPT ![t] = "removing_reaction"]
    /\ UNCHANGED <<deepseek_api_key, MINIMAX_API_KEY, entry, branch, content,
                   attachments, user_bot, emoji, analysis, attempt, indicator,
                   running>>

\* The fallback reply of line 228 was refused: its exception leaves the
\* handler once the finally clause is through.
exception_pending(t) ==
    \E i \in 1..Len(log[t]) :
        /\ log[t][i].ev = "send"
        /\ log[t][i].kind = "text"
        /\ ~log[t][i].ok

\* remove_reaction (line 186, 193 or 230) is over: the reaction is off the
\* message and the handler ends.
reaction_removed(t) ==
    /\ resumes(t)
    /\ pc[t] = "removing_reaction"
    /\ indicator' = [indicator EXCEPT ![t] = FALSE]
    /\ pc' = [pc EXCEPT ![t] =
                 IF exception_pending(t) THEN "raised" ELSE "done"]
    /\ UNCHANGED <<deepseek_api_key, MINIMAX_API_KEY, entry, branch, content,
                   attachments, user_bot, emoji, analysis, attempt, log,
                   running>>

\* ------------------------------------------------------------------------
\* The specifications.

\* One step of invocation t, its inputs drawn from the given sets.
Step(t, contents, messages, text_outcomes, image_outcomes) ==
    \/ \E c \in contents : analyze_joke_command(t, c)
    \/ command_notice_sent(t)
    \/ \E m \in messages, bot \in BOOLEAN, e \in Emojis :
          on_reaction_add(t, m, bot, e)
    \/ \E reply_ok \in BOOLEAN : reaction_dispatch(t, reply_ok)
    \/ reaction_rejection_replied(t)
    \/ analyze_text_joke_enter(t)
    \/ \E o \in text_outcomes : analyze_text_joke_response(t, o)
    \/ analyze_image_joke_enter(t)
    \/ analyze_image_joke_call(t)
    \/ \E o \in image_outcomes : analyze_image_joke_return(t, o)
    \/ analyze_image_joke_wake(t)
    \/ command_present(t)
    \/ command_embed_sent(t)
    \/ \E reply_ok \in BOOLEAN : reaction_present(t, reply_ok)
    \/ \E fallback_ok \in BOOLEAN : reaction_embed_replied(t, fallback_ok)
    \/ reaction_fallback_replied(t)
    \/ reaction_removed(t)

\* One invocation of either handler, with every input.
Next == Step(1, CommandContents, Messages, TextOutcomes, ImageOutcomes)

Spec == Init /\ [][Next]_vars

\* Several invocations interleaved on the event loop, with a few inputs:
\* the contents "ha" and "http://a.png", a message "ha", a message with an
\* image attachment and a message that is too long.
ConcContents ==
    { <<104, 97>>, <<104, 116, 116, 112, 58, 47, 47, 97, 46, 112, 110, 103>> }

ConcMessages ==
    { [content |-> <<104, 97>>, attachments |-> <<>>],
      [content |-> <<>>, attachments |-> <<ImageAttachment>>],
      [content |-> Pad(MAX_CONTENT_LEN + 1), attachments |-> <<>>] }

ConcTextOutcomes ==
    { o \in TextOutcomes :
        \/ o.kind = "exc" /\ o.msg = STR_TIMEOUT
        \/ o.kind = "http" /\ o.status = HTTP_OK /\ o.content = <<111, 107>> }

ConcImageOutcomes ==
    { o \in ImageOutcomes :
        \/ o.kind = "exc" /\ o.msg = STR_TIMEOUT
        \/ o.kind = "ok" /\ o.content = <<111, 107>> }

StepConc(t) ==
    Step(t, ConcContents, ConcMessages, ConcTextOutcomes, ConcImageOutcomes)

InitConc == Init /\ truthy(deepseek_api_key) /\ truthy(MINIMAX_API_KEY)

NextConc == \E t \in Tasks : StepConc(t)

SpecConc == InitConc /\ [][NextConc]_vars


\* ------------------------------------------------------------------------
\* What the claims read off the state.

\* The events of t's log named name, in order.
Events(t, name) == SelectSeq(log[t], LAMBDA e : e.ev = name)

Count(t, name) == Len(Events(t, name))

\* The embeds t handed to the platform, in order.
Embeds(t) ==
    SelectSeq(log[t], LAMBDA e : e.ev = "send" /\ e.kind = "embed")

\* The plain messages t handed to the platform, in order.
Texts(t) ==
    SelectSeq(log[t], LAMBDA e : e.ev = "send" /\ e.kind = "text")

\* t's analysis function has returned to its handler.
Returned(t) ==
    pc[t] \in {"present", "sending_embed", "replying_embed",
              "replying_fallback", "removing_reaction", "done", "raised"}

\* No request went to either backend and nothing slept.
NoBackendTraffic(t) ==
    /\ Count(t, "text_request") = 0
    /\ Count(t, "image_request") = 0
    /\ Count(t, "sleep") = 0

\* ------------------------------------------------------------------------
\* C1.  The command hands its content to the image backend exactly when the
\* content begins with the scheme of an http or https URL and ends, in any
\* letter case, in .jpg, .jpeg, .png or .gif.  It hands every other content,
\* and so a content that only begins with the letters http, to the text
\* path.

HTTP_SCHEME == <<104, 116, 116, 112, 58, 47, 47>>

HTTPS_SCHEME == <<104, 116, 116, 112, 115, 58, 47, 47>>

HasHttpScheme(c) == startswith(c, HTTP_SCHEME) \/ startswith(c, HTTPS_SCHEME)

\* The code point x is the code point y of an extension, or, when y is one
\* of the letters a to z, its capital.
SameLetter(x, y) == x = y \/ (y \in 97..122 /\ x = y - 32)

HasImageSuffix(c) ==
    \E ext \in IMAGE_EXTENSIONS :
        /\ Len(c) >= Len(ext)
        /\ \A i \in 1..Len(ext) :
              SameLetter(c[Len(c) - Len(ext) + i], ext[i])

C1_ImageExactlyForHttpImageUrls ==
    \A t \in Tasks :
        entry[t] = "command" =>
            ((branch[t] = "image")
                <=> (HasHttpScheme(content[t]) /\ HasImageSuffix(content[t])))

\* ------------------------------------------------------------------------
\* C2.  A text input of more than 500 code points is rejected on both entry
\* points: the handler sends the rejection message and does nothing else
\* before it ends (the reaction handler puts its processing reaction on the
\* message first and takes it back afterwards); at no time has a request
\* gone to either backend, has an analysis function been called or has an
\* embed been sent.  A text input of 500 code points or fewer is not
\* rejected.

\* The input of t is a text: a command content the command does not take
\* for an image URL, or the content of a message without attachments that a
\* user marked with the trigger emoji.
TextInput(t) ==
    \/ entry[t] = "command" /\ branch[t] # "image"
    \/ /\ entry[t] = "reaction"
       /\ ~user_bot[t]
       /\ emoji[t] = EMOJI_TRIGGER
       /\ attachments[t] = <<>>
       /\ content[t] # <<>>

RejectionOf(t) ==
    IF entry[t] = "command" THEN MSG_CONTENT_TOO_LONG ELSE MSG_MESSAGE_TOO_LONG

Rejected(t) ==
    \E i \in 1..Len(Texts(t)) : Texts(t)[i].text = RejectionOf(t)

C2_OverlongTextIsRejected ==
    \A t \in Tasks :
        TextInput(t) =>
            IF Len(content[t]) > MAX_CONTENT_LEN
            THEN /\ pc[t] \in {"sending_notice", "adding_reaction",
                               "replying_rejection", "removing_reaction",
                               "done", "raised"}
                 /\ pc[t] # "adding_reaction" => Rejected(t)
                 /\ NoBackendTraffic(t)
                 /\ Count(t, "analyze_text") = 0
                 /\ Count(t, "analyze_image") = 0
                 /\ Embeds(t) = <<>>
            ELSE ~Rejected(t)

C2_Witness ==
    \E t \in Tasks :
        /\ TextInput(t)
        /\ entry[t] = "reaction"
        /\ Len(content[t]) = MAX_CONTENT_LEN + 1
        /\ Rejected(t)
        /\ pc[t] = "done"

\* ------------------------------------------------------------------------
\* C3.  With a configured client, analyze_image_joke makes at most 3 calls.
\* When every call fails it makes exactly 3, sleeps 2 seconds after the 1st
\* and after the 2nd and not after the 3rd, and returns a failure string.
\* When call k succeeds it returns that completion's content at once: no
\* call follows it.

\* The requests, responses and sleeps of t, in order.
ImageTraffic(t) ==
    SelectSeq(log[t],
              LAMBDA e : e.ev \in {"image_request", "image_response", "sleep"})

\* Request, response, sleep, request, response, sleep, ..., request,
\* response: the shape of k attempts.
AttemptShape(t, k) ==
    LET f == ImageTraffic(t) IN
    /\ Len(f) = 3 * k - 1
    /\ \A i \in 1..Len(f) :
          /\ (i % 3 = 1) => f[i].ev = "image_request"
          /\ (i % 3 = 2) => f[i].ev = "image_response"
          /\ (i % 3 = 0) => (f[i].ev = "sleep" /\ f[i].secs = 2)

C3_ThreeAttemptsThenFailure ==
    \A t \in Tasks :
        /\ Count(t, "image_request") <= 3
        /\ (branch[t] = "image" /\ Returned(t)
                /\ MINIMAX_API_KEY \notin {None, <<>>}) =>
              LET outs == Events(t, "image_response")
                  k == Len(outs)
              IN  /\ k \in 1..3
                  /\ Count(t, "image_request") = k
                  /\ Count(t, "sleep") = k - 1
                  /\ AttemptShape(t, k)
                  /\ \A i \in 1..(k - 1) : outs[i].outcome.kind = "exc"
                  /\ outs[k].outcome.kind = "ok" =>
                        analysis[t] = outs[k].outcome.content
                  /\ outs[k].outcome.kind = "exc" =>
                        /\ k = 3
                        /\ analysis[t] # None
                        /\ analysis[t] =
                              MSG_IMAGE_FAILED_HEAD \o outs[k].outcome.msg

C3_Witness ==
    \E t \in Tasks :
        /\ branch[t] = "image"
        /\ Returned(t)
        /\ Count(t, "image_request") = 3
        /\ Count(t, "sleep") = 2
        /\ \A i \in 1..3 : Events(t, "image_response")[i].outcome.kind = "exc"

\* ------------------------------------------------------------------------
\* C4.  With a configured credential, analyze_text_joke sends exactly one
\* request.  A response with a status other than 200 makes it return a
\* failure string that holds the status in decimal; a transport failure
\* makes it return a failure string too.

RECURSIVE DecimalValue(_)
DecimalValue(d) ==
    IF d = <<>> THEN 0
    ELSE 10 * DecimalValue(SubSeq(d, 1, Len(d) - 1))
            + (d[Len(d)] - 48)

\* The digits 0 to 9 are the code points 48 to 57.
AllDigits(d) == \A i \in 1..Len(d) : d[i] \in 48..57

\* s holds the decimal numeral of n, with no digit before or after it.
HoldsNumber(s, n) ==
    \E i \in 1..Len(s) : \E j \in i..Len(s) :
        /\ AllDigits(SubSeq(s, i, j))
        /\ (i > 1 => ~AllDigits(<<s[i - 1]>>))
        /\ (j < Len(s) => ~AllDigits(<<s[j + 1]>>))
        /\ DecimalValue(SubSeq(s, i, j)) = n

C4_TextFailureAfterOneRequest ==
    \A t \in Tasks :
        /\ Count(t, "text_request") <= 1
        /\ (branch[t] = "text" /\ Returned(t)
                /\ deepseek_api_key \notin {None, <<>>}) =>
              LET outs == Events(t, "text_response") IN
              /\ Count(t, "text_request") = 1
              /\ Len(outs) = 1
              /\ (outs[1].outcome.kind = "http"
                    /\ outs[1].outcome.status # 200) =>
                    /\ analysis[t] # None
                    /\ startswith(analysis[t], MSG_API_ERROR_HEAD)
                    /\ HoldsNumber(analysis[t], outs[1].outcome.status)
              /\ outs[1].outcome.kind = "exc" =>
                    /\ analysis[t] # None
                    /\ analysis[t] = MSG_TEXT_FAILED_HEAD \o outs[1].outcome.msg

C4_Witness ==
    \E t \in Tasks :
        /\ branch[t] = "text"
        /\ Returned(t)
        /\ Count(t, "text_request") = 1
        /\ Events(t, "text_response")[1].outcome.kind = "http"
        /\ Events(t, "text_response")[1].outcome.status = 404
        /\ HoldsNumber(analysis[t], 404)

\* ------------------------------------------------------------------------
\* C5.  With DSAPI unset or empty, analyze_text_joke returns the
\* missing-credential message and no request is sent; with MINIMAX_API_KEY
\* unset or empty, analyze_image_joke returns its missing-credential message
\* without a call and without a sleep.  Each path looks at its own
\* credential only: with its credential set it sends its request, whatever
\* the other credential is.

C5_MissingCredentialShortCircuits ==
    \A t \in Tasks :
        /\ (branch[t] = "text" /\ Returned(t)) =>
              IF deepseek_api_key \in {None, <<>>}
              THEN /\ analysis[t] = MSG_NO_DEEPSEEK_KEY
                   /\ NoBackendTraffic(t)
              ELSE Count(t, "text_request") = 1
        /\ (branch[t] = "image" /\ Returned(t)) =>
              IF MINIMAX_API_KEY \in {None, <<>>}
              THEN /\ analysis[t] = MSG_NO_MINIMAX_KEY
                   /\ NoBackendTraffic(t)
              ELSE Count(t, "image_request") >= 1

C5_Witness ==
    \E t \in Tasks :
        /\ branch[t] = "text"
        /\ Returned(t)
        /\ deepseek_api_key = <<>>
        /\ MINIMAX_API_KEY \notin {None, <<>>}
        /\ analysis[t] = MSG_NO_DEEPSEEK_KEY

\* ------------------------------------------------------------------------
\* C6.  On both entry points the description of every embed is the first
\* 2000 code points of the analysis: it is never longer than 2000, and an
\* analysis of 2000 code points or fewer is the description unchanged.

IsPrefix(d, a) == Len(d) <= Len(a) /\ \A i \in 1..Len(d) : d[i] = a[i]

C6_DescriptionIsFirst2000 ==
    \A t \in Tasks :
        \A i \in 1..Len(Embeds(t)) :
            LET d == Embeds(t)[i].description IN
            /\ Len(d) <= 2000
            /\ IsPrefix(d, analysis[t])
            /\ Len(d) = Min(Len(analysis[t]), 2000)
            /\ (Len(analysis[t]) <= 2000 => d = analysis[t])

C6_Witness ==
    \E t \in Tasks :
        /\ entry[t] = "reaction"
        /\ Len(analysis[t]) = 2001
        /\ Embeds(t) # <<>>
        /\ Len(Embeds(t)[1].description) = 2000

\* ------------------------------------------------------------------------
\* C7.  Whatever a backend call ends in, the analysis functions return a
\* text, and both handlers end by sending a message that carries the
\* analysis or a diagnostic: no handler ends in an uncaught exception unless
\* the platform refused one of its replies.

ReplyRefused(t) ==
    \E i \in 1..Len(log[t]) : log[t][i].ev = "send" /\ ~log[t][i].ok

Delivered(t) ==
    \E i \in 1..Len(log[t]) : log[t][i].ev = "send" /\ log[t][i].ok

C7_EveryOutcomeEndsInAMessage ==
    \A t \in Tasks :
        /\ pc[t] = "present" => analysis[t] # None
        /\ pc[t] = "raised" => ReplyRefused(t)
        /\ (pc[t] = "done" /\ branch[t] # "ignored") =>
              (Delivered(t) \/ ReplyRefused(t))

\* ------------------------------------------------------------------------
\* C8.  A backend call that hangs blocks only its own task: while one
\* invocation waits for its text or image backend, every other invocation
\* that has begun and not ended can take a step.

InBackendCall(t) == pc[t] \in {"text_wait", "image_wait"}

Pending(t) == pc[t] \notin {"idle", "done", "raised"}

C8_HungCallBlocksOnlyItsTask ==
    \A t \in Tasks : \A u \in Tasks \ {t} :
        (InBackendCall(t) /\ Pending(u)) => ENABLED StepConc(u)

\* ------------------------------------------------------------------------
\* C9.  on_reaction_add, for a trigger reaction of a user who is no bot:
\* when the first attachment is an image, the image backend is called with
\* its url; when the message has no image attachment and has a text (also
\* when it carries other attachments), the text backend is called with the
\* text; and every embed sent has a title and describes an analysis that was
\* performed.

Triggered(t) ==
    /\ entry[t] = "reaction"
    /\ ~user_bot[t]
    /\ emoji[t] = EMOJI_TRIGGER
    /\ (content[t] # <<>> \/ attachments[t] # <<>>)

IsImage(a) ==
    /\ a.content_type # None
    /\ startswith(a.content_type, STR_IMAGE)

NoImageAttachment(t) ==
    \A i \in 1..Len(attachments[t]) : ~IsImage(attachments[t][i])

CalledWith(t, name, arg) ==
    \E i \in 1..Len(Events(t, name)) : Events(t, name)[i].arg = arg

C9_ImageFirstOtherwiseText ==
    \A t \in Tasks :
        (Triggered(t) /\ Returned(t)) =>
            /\ (attachments[t] # <<>> /\ IsImage(attachments[t][1])) =>
                  CalledWith(t, "analyze_image", attachments[t][1].url)
            /\ (NoImageAttachment(t) /\ content[t] # <<>>
                    /\ Len(content[t]) <= MAX_CONTENT_LEN) =>
                  CalledWith(t, "analyze_text", content[t])
            /\ \A i \in 1..Len(Embeds(t)) :
                  /\ Embeds(t)[i].title # <<>>
                  /\ Count(t, "analyze_text") + Count(t, "analyze_image") > 0

\* ------------------------------------------------------------------------
\* C10.  on_reaction_add adds the processing reaction only for a trigger
\* reaction of a user who is no bot on a message with content or
\* attachments, and once the handler has ended the reaction it added is off
\* the message again.  For a bot's reaction or another emoji it adds no
\* reaction, calls no backend and sends nothing.

C10_IndicatorRemovedAtTheEnd ==
    \A t \in Tasks :
        entry[t] = "reaction" =>
            /\ Count(t, "add_reaction") > 0 => Triggered(t)
            /\ Terminated(t) => ~indicator[t]
            /\ (user_bot[t] \/ emoji[t] # EMOJI_TRIGGER) => log[t] = <<>>
====
